---- MODULE Spec2Model ----
(***************************************************************************)
(* CloudCreator (src/__init__.py): the create operator (invoke / execute), *)
(* the mesh loader, the material namer / randomizer, the shadow-plane      *)
(* builder and the light builder, over an abstract scene.                  *)
(*                                                                         *)
(* Lengths are fixed-point integers, 1/10000 m per unit (Metres), so that  *)
(* the spread 10.0001 is representable.  Scale factors are fixed-point     *)
(* integers, 1/100000 per unit (Fixed).  Python's global random generator  *)
(* is a deterministic state machine: random.seed sets its state from the   *)
(* seed alone, random.uniform advances the state and returns a value in    *)
(* [-1000, 1000] computed from it.                                         *)
(***************************************************************************)
EXTENDS Integers, Sequences, FiniteSets, TLC

VARIABLES
    props,      \* context.scene.cloudcreator (CloudCreatorProperties)
    assets,     \* the assets.blend file: does it exist, which objects it holds
    scene,      \* the objects linked to the scene, in creation order
    rng,        \* the state of Python's global random generator
    pc,         \* the operator: "Idle", "ConfirmPending", "Finished"
    runs,       \* number of executes so far
    last,       \* what the current / last operation did (reports, calls, path)
    mat,        \* a material handed directly to the material functions
    hist        \* what the direct calls on mat did

vars == <<props, assets, scene, rng, pc, runs, last, mat, hist>>

-----------------------------------------------------------------------------
(* Bounds *)

MaxRuns == 2        \* executes per behaviour
MaxNodes == 2       \* nodes of a material handed to the material functions
MaxCalls == 3       \* direct calls of the material functions per behaviour
MaxDraws == 2       \* draws other code takes from the global generator

-----------------------------------------------------------------------------
(* Numbers *)

Metres(n) == n * 10000
Fixed(n) == n * 100000
One == Fixed(1)
UnitScale == <<One, One, One>>

RECURSIVE GCD(_, _)
GCD(a, b) == IF b = 0 THEN a ELSE GCD(b, a % b)

\* floor(a * b / c), cancelling common factors first so that the product
\* stays within the checker's integers (a, b >= 0, c > 0)
MulDiv(a, b, c) ==
    LET g1 == GCD(b, c)
        b1 == b \div g1
        c1 == c \div g1
        g2 == GCD(a, c1)
    IN ((a \div g2) * b1) \div (c1 \div g2)

\* a length used as a scale factor (plane.scale = (plane_size, plane_size, 1))
LengthAsFactor(len) == MulDiv(len, One, Metres(1))

-----------------------------------------------------------------------------
(* Python's random module *)

\* random.seed(seed): the state depends on the seed alone
RandomSeed(seed) == (seed * 31 + 7) % 65537

\* the state after one random.uniform
RandomAdvance(state) == (75 * state + 74) % 65537

\* random.uniform(-1000, 1000) drawn in state `state` (value of the new state)
RandomUniform(state) == (RandomAdvance(state) % 2001) - 1000

-----------------------------------------------------------------------------
(* Strings that the code inspects are sequences of characters *)

Prefix == <<"C","l","o","u","d","C","r","e","a","t","o","r">>

\* str.startswith
StartsWith(s, p) == Len(s) >= Len(p) /\ SubSeq(s, 1, Len(p)) = p

\* f"{prefix}_{name}"
Prefixed(p, name) == p \o <<"_">> \o name

N_Mapping == <<"M","a","p">>
N_Noise == <<"N","o","i","s","e">>
N_Bsdf == <<"B","S","D","F">>
N_Cloud == <<"C","l","o","u","d">>
N_Output == <<"O","u","t","p","u","t">>
N_ColorRamp == <<"C","o","l","o","r","R","a","m","p">>
N_TexCoord == <<"T","e","x","C","o","o","r","d">>
N_Mapping7 == <<"M","a","p","p","i","n","g">>

-----------------------------------------------------------------------------
(* Materials and their node graphs *)

Origin == <<0, 0, 0>>

\* a shader node: name and label, bl type, the Location input's default value
Node(name, type) == [name |-> name, label |-> <<>>, type |-> type, loc |-> Origin]

\* a material slot; valid = FALSE is an empty slot (None)
Material(name, use_nodes, nodes) ==
    [valid |-> TRUE, name |-> name, use_nodes |-> use_nodes,
     blend_method |-> "OPAQUE", nodes |-> nodes, links |-> <<>>]

NoMaterial ==
    [valid |-> FALSE, name |-> "", use_nodes |-> FALSE,
     blend_method |-> "", nodes |-> <<>>, links |-> <<>>]

NodeNames(material) == {material.nodes[i].name : i \in DOMAIN material.nodes}

\* variant: prefixes without looking at the name
RenameNodeAlways(node, prefix) ==
    [node EXCEPT !.name = Prefixed(prefix, node.name),
                 !.label = Prefixed(prefix, node.name)]

\* rename_material_nodes: the loop body for one node
RenameNode(node, prefix) ==
    IF ~StartsWith(node.name, prefix)
    THEN [node EXCEPT !.name = Prefixed(prefix, node.name),
                      !.label = Prefixed(prefix, node.name)]
    ELSE node

\* rename_material_nodes(material, prefix)
rename_material_nodes(material, prefix) ==
    IF ~material.valid \/ ~material.use_nodes
    THEN material
    ELSE [material EXCEPT !.nodes =
              [i \in DOMAIN material.nodes |-> RenameNode(material.nodes[i], prefix)]]

\* set_random_mapping_locations: the loop over the nodes from index i on,
\* threading the generator's state; result [nodes, rng]
RECURSIVE MappingLoop(_, _, _)
MappingLoop(nodes, i, state) ==
    IF i > Len(nodes)
    THEN [nodes |-> nodes, rng |-> state]
    ELSE IF nodes[i].type = "MAPPING"
         THEN LET s1 == RandomAdvance(state)
                  s2 == RandomAdvance(s1)
                  s3 == RandomAdvance(s2)
                  drawn == <<RandomUniform(state), RandomUniform(s1), RandomUniform(s2)>>
              IN MappingLoop([nodes EXCEPT ![i].loc = drawn], i + 1, s3)
         ELSE MappingLoop(nodes, i + 1, state)

\* variant: the generator is not reseeded
MappingSeedKept(seed, state) == state

\* the generator's state after random.seed(seed) in set_random_mapping_locations
MappingSeed(seed, state) == RandomSeed(seed)

\* set_random_mapping_locations(material, seed) run with the generator in
\* state `state`; result [mat, rng]
set_random_mapping_locations(material, seed, state) ==
    IF ~material.valid \/ ~material.use_nodes
    THEN [mat |-> material, rng |-> state]
    ELSE LET r == MappingLoop(material.nodes, 1, MappingSeed(seed, state))
         IN [mat |-> [material EXCEPT !.nodes = r.nodes], rng |-> r.rng]

-----------------------------------------------------------------------------
(* Settings (CloudCreatorProperties) *)

CloudTypes == {"single", "sphere"}
Seeds == {42}
CloudSpreads == {Metres(5), Metres(10), Metres(10) + 1, Metres(50)}
ShadowSpreads == {Metres(100)}
CloudHeights == {Metres(10)}

\* the values each setting can take
PropsDomain ==
    [add_cloud |-> BOOLEAN, seed |-> Seeds, multiple |-> BOOLEAN,
     cloud_type |-> CloudTypes, cloud_spread |-> CloudSpreads,
     shadow_spread |-> ShadowSpreads, cloud_height |-> CloudHeights,
     cloud_shadows |-> BOOLEAN, add_light |-> BOOLEAN]

\* the properties' declared defaults, with the spread taken from CloudSpreads
DefaultProps ==
    [add_cloud |-> TRUE, seed |-> 42, multiple |-> FALSE, cloud_type |-> "single",
     cloud_spread |-> Metres(50), shadow_spread |-> Metres(100),
     cloud_height |-> Metres(10), cloud_shadows |-> TRUE, add_light |-> FALSE]

-----------------------------------------------------------------------------
(* The asset library (assets/assets.blend) *)

MeshNames == {"cloud_layer", "cloud_single", "cloud_sphere"}

\* materials of the three library objects: unprefixed and prefixed node names,
\* several mapping nodes, a material without nodes, an empty slot
LayerMaterials ==
    << Material("cloud_layer_mat", TRUE,
           << Node(N_Mapping, "MAPPING"), Node(N_Noise, "TEX_NOISE"),
              Node(Prefixed(Prefix, N_Mapping7), "MAPPING") >>) >>

SingleMaterials ==
    << NoMaterial,
       Material("cloud_single_mat", TRUE,
           << Node(N_Cloud, "TEX_NOISE"), Node(N_Mapping, "MAPPING") >>) >>

SphereMaterials ==
    << Material("cloud_plain", FALSE, << Node(N_Mapping, "MAPPING") >>),
       Material("cloud_sphere_mat", TRUE, << Node(N_Bsdf, "BSDF_PRINCIPLED") >>) >>

NoLight == [energy |-> 0, shape |-> "", size |-> 0, spread_deg |-> 0, name |-> ""]

\* an object as stored in the library file; run and seed record the execute
\* that put the object into the scene and the seed setting at that time
LibraryObject(mesh_name) ==
    [name |-> mesh_name, type |-> "MESH", location_z |-> 0, scale |-> UnitScale,
     dims |-> CASE mesh_name = "cloud_layer" -> <<Metres(10), Metres(10), Metres(2)>>
                [] mesh_name = "cloud_single" -> <<Metres(4), Metres(4), Metres(1)>>
                [] OTHER -> <<Metres(3), Metres(3), Metres(3)>>,
     visible_shadow |-> TRUE, visible_camera |-> TRUE,
     materials |-> CASE mesh_name = "cloud_layer" -> LayerMaterials
                     [] mesh_name = "cloud_single" -> SingleMaterials
                     [] OTHER -> SphereMaterials,
     parent |-> 0, light |-> NoLight, run |-> 0, seed |-> 0]

\* the states the library file can be in
AssetStates ==
    { [exists |-> FALSE, objects |-> {}, loads |-> {}],
      [exists |-> TRUE, objects |-> MeshNames, loads |-> MeshNames],
      [exists |-> TRUE, objects |-> {"cloud_single"}, loads |-> {"cloud_single"}],
      [exists |-> TRUE, objects |-> MeshNames, loads |-> MeshNames \ {"cloud_sphere"}] }

-----------------------------------------------------------------------------
(* Host operations on objects *)

None == "None"

\* bpy.ops.object.transform_apply(location=False, rotation=False, scale=True)
TransformApplyScale(obj) ==
    [obj EXCEPT !.dims = << MulDiv(obj.dims[1], obj.scale[1], One),
                            MulDiv(obj.dims[2], obj.scale[2], One),
                            MulDiv(obj.dims[3], obj.scale[3], One) >>,
                !.scale = UnitScale]

\* setup_cloud_visibility
setup_cloud_visibility(obj) == [obj EXCEPT !.visible_shadow = FALSE]

\* setup_shadow_plane_visibility
setup_shadow_plane_visibility(obj) == [obj EXCEPT !.visible_camera = FALSE]

-----------------------------------------------------------------------------
(* Mesh loader *)

\* the canonical display name given to a loaded object
CloudName(mesh_name) ==
    CASE mesh_name = "cloud_layer" -> "CloudCreator_Layer"
      [] mesh_name = "cloud_single" -> "CloudCreator_Single"
      [] mesh_name = "cloud_sphere" -> "CloudCreator_Sphere"
      [] OTHER -> "CloudCreator_" \o mesh_name

\* variant: the factor is applied to all three axes
ScaleLayerAllAxes(obj, p) ==
    LET base_size == Metres(10)
        scale_factor == MulDiv(p.cloud_spread, One, base_size)
    IN TransformApplyScale([obj EXCEPT !.scale = <<scale_factor, scale_factor, scale_factor>>])

\* layer variant: scale to the target spread in X and Y, then bake
ScaleLayer(obj, p) ==
    LET base_size == Metres(10)
        scale_factor == MulDiv(p.cloud_spread, One, base_size)
    IN TransformApplyScale([obj EXCEPT !.scale = <<scale_factor, scale_factor, One>>])

\* the loop over obj.data.materials from slot i on; result [mats, rng]
RECURSIVE MaterialsLoop(_, _, _, _)
MaterialsLoop(mats, i, seed, state) ==
    IF i > Len(mats)
    THEN [mats |-> mats, rng |-> state]
    ELSE IF mats[i].valid
         THEN LET r == set_random_mapping_locations(
                           rename_material_nodes(mats[i], Prefix), seed, state)
              IN MaterialsLoop([mats EXCEPT ![i] = r.mat], i + 1, seed, r.rng)
         ELSE MaterialsLoop(mats, i + 1, seed, state)

\* the loaded object, renamed and placed at the cloud height
PlaceCloud(mesh_name, p, run) ==
    [LibraryObject(mesh_name) EXCEPT
         !.name = CloudName(mesh_name),
         !.location_z = p.cloud_height,
         !.run = run, !.seed = p.seed]

\* if multiple (cloud_layer), scale based on cloud_spread
ScaleIfLayer(obj, mesh_name, p) ==
    IF p.multiple /\ mesh_name = "cloud_layer" THEN ScaleLayer(obj, p) ELSE obj

\* the object with its materials processed; r is MaterialsLoop's result
WithMaterials(obj, r) == [obj |-> [obj EXCEPT !.materials = r.mats], rng |-> r.rng]

\* process all materials on the object
ProcessMaterials(obj, p, state) ==
    WithMaterials(obj, MaterialsLoop(obj.materials, 1, p.seed, state))

\* what load_cloud_mesh does to the object once it is loaded
PrepareCloud(mesh_name, p, state, run) ==
    ProcessMaterials(
        setup_cloud_visibility(ScaleIfLayer(PlaceCloud(mesh_name, p, run), mesh_name, p)),
        p, state)

\* the successful return: r.obj is linked to the scene
Loaded(sc, r) ==
    [obj |-> Len(sc) + 1, error |-> None, scene |-> Append(sc, r.obj), rng |-> r.rng]

\* variant: the name is not looked up in the library before loading
load_cloud_mesh_unchecked(p, lib, mesh_name, sc, state, run) ==
    IF ~lib.exists
    THEN [obj |-> 0, error |-> "Assets file not found", scene |-> sc, rng |-> state]
    ELSE Loaded(sc, PrepareCloud(mesh_name, p, state, run))

\* load_cloud_mesh(context, mesh_name) with the scene sc and the generator in
\* state `state`; result: obj = index of the new object (0 = None), error
\* (None or a message), the scene and the generator afterwards
load_cloud_mesh(p, lib, mesh_name, sc, state, run) ==
    IF ~lib.exists
    THEN [obj |-> 0, error |-> "Assets file not found", scene |-> sc, rng |-> state]
    ELSE IF mesh_name \notin lib.objects
    THEN [obj |-> 0, error |-> "Object '" \o mesh_name \o "' not found in assets.blend",
          scene |-> sc, rng |-> state]
    ELSE IF mesh_name \in lib.loads
    THEN Loaded(sc, PrepareCloud(mesh_name, p, state, run))
    ELSE [obj |-> 0, error |-> "Failed to load object", scene |-> sc, rng |-> state]

-----------------------------------------------------------------------------
(* Shadow-plane builder *)

\* the nodes a material gets when use_nodes is switched on
DefaultNodes ==
    << Node(<<"P","r","i","n","c","i","p","l","e","d"," ","B","S","D","F">>, "BSDF_PRINCIPLED"),
       Node(<<"M","a","t","e","r","i","a","l"," ","O","u","t","p","u","t">>, "OUTPUT_MATERIAL") >>

\* variant: the default nodes are kept
KeepNodes(nodes) == nodes

\* nodes.clear()
ClearNodes(nodes) == SubSeq(nodes, 1, 0)

\* nodes.new(type=...) followed by node.name = ...
NewNode(nodes, name, type) == Append(nodes, Node(name, type))

Link(from_node, from_socket, to_node, to_socket) ==
    [from_node |-> from_node, from_socket |-> from_socket,
     to_node |-> to_node, to_socket |-> to_socket]

\* the material of the shadow plane; loc is the mapping node's Location
ShadowMaterial(loc) ==
    LET cleared == ClearNodes(DefaultNodes)
        n1 == NewNode(cleared, Prefixed(Prefix, N_Output), "OUTPUT_MATERIAL")
        n2 == NewNode(n1, Prefixed(Prefix, N_Bsdf), "BSDF_PRINCIPLED")
        n3 == NewNode(n2, Prefixed(Prefix, N_ColorRamp), "VALTORGB")
        n4 == NewNode(n3, Prefixed(Prefix, N_Noise), "TEX_NOISE")
        n5 == NewNode(n4, Prefixed(Prefix, N_Mapping7), "MAPPING")
        n5loc == [n5 EXCEPT ![Len(n5)].loc = loc]
        n6 == NewNode(n5loc, Prefixed(Prefix, N_TexCoord), "TEX_COORD")
        links ==
            << Link(Prefixed(Prefix, N_TexCoord), "Generated", Prefixed(Prefix, N_Mapping7), "Vector"),
               Link(Prefixed(Prefix, N_Mapping7), "Vector", Prefixed(Prefix, N_Noise), "Vector"),
               Link(Prefixed(Prefix, N_Noise), "Fac", Prefixed(Prefix, N_ColorRamp), "Fac"),
               Link(Prefixed(Prefix, N_ColorRamp), "Color", Prefixed(Prefix, N_Bsdf), "Alpha"),
               Link(Prefixed(Prefix, N_Bsdf), "BSDF", Prefixed(Prefix, N_Output), "Surface") >>
    IN [valid |-> TRUE, name |-> "CloudCreator_ShadowMaterial", use_nodes |-> TRUE,
        blend_method |-> "BLEND", nodes |-> n6, links |-> links]

\* variant: the generator is not reseeded
ShadowSeedKept(p, state) == state

\* the generator's state after random.seed(props.seed) in create_cloud_shadow_plane
ShadowSeed(p, state) == RandomSeed(p.seed)

\* create_cloud_shadow_plane(context) with the scene sc and the generator in
\* state `state`; result: the plane's index, the scene and generator afterwards
create_cloud_shadow_plane(p, sc, state, run) ==
    LET s0 == ShadowSeed(p, state)
        plane_size == p.shadow_spread
        added == [name |-> "CloudCreator_Shadow", type |-> "MESH",
                  location_z |-> p.cloud_height, scale |-> UnitScale,
                  dims |-> <<Metres(1), Metres(1), 0>>,
                  visible_shadow |-> TRUE, visible_camera |-> TRUE,
                  materials |-> <<>>, parent |-> 0, light |-> NoLight,
                  run |-> run, seed |-> p.seed]
        scaled == TransformApplyScale(
                      [added EXCEPT !.scale = <<LengthAsFactor(plane_size),
                                                LengthAsFactor(plane_size), One>>])
        hidden == setup_shadow_plane_visibility(scaled)
        s1 == RandomAdvance(s0)
        s2 == RandomAdvance(s1)
        s3 == RandomAdvance(s2)
        loc == <<RandomUniform(s0), RandomUniform(s1), RandomUniform(s2)>>
        plane == [hidden EXCEPT !.materials = <<ShadowMaterial(loc)>>]
    IN [obj |-> Len(sc) + 1, scene |-> Append(sc, plane), rng |-> s3]

-----------------------------------------------------------------------------
(* Light builder *)

\* variant: the light is left without a parent
create_cloud_light_unparented(p, sc, shadow_plane, run) ==
    LET light == [name |-> "CloudCreator_Light", type |-> "LIGHT",
                  location_z |-> p.cloud_height + Metres(1) \div 2, scale |-> UnitScale,
                  dims |-> Origin, visible_shadow |-> TRUE, visible_camera |-> TRUE,
                  materials |-> <<>>, parent |-> 0,
                  light |-> [energy |-> 10000, shape |-> "SQUARE",
                             size |-> p.shadow_spread, spread_deg |-> 20,
                             name |-> "CloudCreator_AreaLight"],
                  run |-> run, seed |-> p.seed]
    IN [obj |-> Len(sc) + 1, scene |-> Append(sc, light)]

\* create_cloud_light(context, shadow_plane); shadow_plane is the plane's index
create_cloud_light(p, sc, shadow_plane, run) ==
    LET light_height == p.cloud_height + Metres(1) \div 2
        light == [name |-> "CloudCreator_Light", type |-> "LIGHT",
                  location_z |-> light_height, scale |-> UnitScale,
                  dims |-> Origin, visible_shadow |-> TRUE, visible_camera |-> TRUE,
                  materials |-> <<>>, parent |-> shadow_plane,
                  light |-> [energy |-> 10000, shape |-> "SQUARE",
                             size |-> p.shadow_spread, spread_deg |-> 20,
                             name |-> "CloudCreator_AreaLight"],
                  run |-> run, seed |-> p.seed]
    IN [obj |-> Len(sc) + 1, scene |-> Append(sc, light)]

-----------------------------------------------------------------------------
(* The create operator *)

\* variant: the threshold itself already asks for confirmation
NeedsConfirmFromThreshold(p) == p.add_cloud /\ p.multiple /\ p.cloud_spread >= Metres(10)

\* the condition under which invoke asks for confirmation
NeedsConfirm(p) == p.add_cloud /\ p.multiple /\ p.cloud_spread > Metres(10)

\* variant: the shape selection wins over multiple
MeshNameByType(p) == "cloud_" \o p.cloud_type

\* the mesh identifier execute resolves from the settings
MeshNameFor(p) == IF p.multiple THEN "cloud_layer" ELSE "cloud_" \o p.cloud_type

Truthy(error) == error # None /\ error # ""

Report(level, text) == <<level, text>>

NoLoad == [obj |-> 0, error |-> None]

\* what execute reports after the loader returned r
LoadReport(r) ==
    IF Truthy(r.error)
    THEN <<Report("WARNING", "CloudCreator: " \o r.error)>>
    ELSE IF r.obj # 0
         THEN <<Report("INFO", "CloudCreator: Loaded '" \o r.scene[r.obj].name \o "'")>>
         ELSE <<>>

\* the handler's state after the loader returned r.  st = [scene, rng,
\* reports, calls, load]; load is what load_cloud_mesh returned
AfterLoader(st, mesh_name, r) ==
    [scene |-> r.scene, rng |-> r.rng, reports |-> st.reports \o LoadReport(r),
     calls |-> Append(st.calls, <<"load_cloud_mesh", mesh_name>>),
     load |-> [obj |-> r.obj, error |-> r.error]]

\* execute, step 1: load the cloud mesh if enabled
CloudStep(p, lib, st, run) ==
    IF p.add_cloud
    THEN AfterLoader(st, MeshNameFor(p),
                     load_cloud_mesh(p, lib, MeshNameFor(p), st.scene, st.rng, run))
    ELSE st

\* the handler's state after create_cloud_light returned r
AfterLight(st, r) ==
    [st EXCEPT !.scene = r.scene,
               !.reports = Append(@, Report("INFO",
                    "CloudCreator: Created light '" \o r.scene[r.obj].name \o "'")),
               !.calls = Append(@, <<"create_cloud_light", "">>)]

\* execute, step 3: add the light if enabled (only reached with a shadow plane)
LightStep(p, st, shadow_plane, run) ==
    IF p.add_light
    THEN AfterLight(st, create_cloud_light(p, st.scene, shadow_plane, run))
    ELSE st

\* the handler's state after create_cloud_shadow_plane returned r
AfterShadowPlane(st, r) ==
    [st EXCEPT !.scene = r.scene, !.rng = r.rng,
               !.reports = Append(@, Report("INFO",
                    "CloudCreator: Created shadow plane '" \o r.scene[r.obj].name \o "'")),
               !.calls = Append(@, <<"create_cloud_shadow_plane", "">>)]

\* the light step with the plane that create_cloud_shadow_plane returned
LightOnPlane(p, st, r, run) == LightStep(p, AfterShadowPlane(st, r), r.obj, run)

\* execute, step 2: create the shadow plane if enabled, then the light
ShadowStep(p, st, run) ==
    IF p.cloud_shadows
    THEN LightOnPlane(p, st, create_cloud_shadow_plane(p, st.scene, st.rng, run), run)
    ELSE st

\* the handler's state before its first step
Entry(sc, state) ==
    [scene |-> sc, rng |-> state, reports |-> <<>>, calls |-> <<>>, load |-> NoLoad]

\* what the handler did: st1 after the cloud step, st2 at the return
Outcome(sc, st1, st2) ==
    [st2 EXCEPT !.load = [obj |-> st1.load.obj, error |-> st1.load.error,
                          before |-> sc, after |-> st1.scene]]

\* execute from the cloud step's result st1 on
AfterCloudStep(p, sc, st1, run) == Outcome(sc, st1, ShadowStep(p, st1, run))

\* variant of AfterCloudStep: the later steps are skipped after a failed load
AfterCloudStepAborting(p, sc, st1, run) ==
    Outcome(sc, st1, IF Truthy(st1.load.error) THEN st1 ELSE ShadowStep(p, st1, run))

\* variant: a failed load ends the handler
execute_aborting(p, lib, sc, state, run) ==
    AfterCloudStepAborting(p, sc, CloudStep(p, lib, Entry(sc, state), run), run)

\* CLOUDCREATOR_OT_create.execute: the whole handler
execute(p, lib, sc, state, run) ==
    AfterCloudStep(p, sc, CloudStep(p, lib, Entry(sc, state), run), run)

NoOperation ==
    [path |-> <<>>, reports |-> <<>>, calls |-> <<>>,
     load |-> [obj |-> 0, error |-> None, before |-> <<>>, after |-> <<>>]]

\* the state after execute returned {'FINISHED'} with outcome r
Finish(path, r) ==
    /\ scene' = r.scene
    /\ rng' = r.rng
    /\ runs' = runs + 1
    /\ pc' = "Finished"
    /\ last' = [path |-> path \o <<"Executing", "Finished">>, reports |-> r.reports,
                calls |-> r.calls, load |-> r.load]

\* the operator runs execute
RunExecute(path) == Finish(path, execute(props, assets, scene, rng, runs + 1))

-----------------------------------------------------------------------------
(* Actions *)

\* seeds and prefixes handed directly to the material functions
SeedInputs == {0, 42}
PrefixInputs == {Prefix, <<"S","k","y">>}

\* what the direct calls did: the last call and its argument, how often in a
\* row rename ran with that prefix, the material before the last call, per
\* seed the offsets the randomizer has assigned and how often it ran, the
\* number of calls and draws
NoHistory == [op |-> "", prefix |-> <<>>, seed |-> 0, applied |-> 0,
              before |-> NoMaterial, seen |-> [s \in SeedInputs |-> {}],
              times |-> [s \in SeedInputs |-> 0], calls |-> 0, draws |-> 0]

Init ==
    /\ props \in {DefaultProps}
    /\ assets \in AssetStates
    /\ scene = <<>>
    /\ rng = RandomSeed(1)
    /\ pc = "Idle"
    /\ runs = 0
    /\ last = NoOperation
    /\ mat = NoMaterial
    /\ hist = NoHistory

\* the user edits one setting in the panel
SetProp ==
    /\ pc = "Idle"
    /\ runs < MaxRuns
    /\ \E f \in DOMAIN props :
          \E v \in PropsDomain[f] \ {props[f]} :
              props' = [props EXCEPT ![f] = v]
    /\ UNCHANGED <<assets, scene, rng, pc, runs, last, mat, hist>>

\* CLOUDCREATOR_OT_create.invoke
Invoke ==
    /\ pc = "Idle"
    /\ runs < MaxRuns
    /\ IF NeedsConfirm(props)
       THEN /\ pc' = "ConfirmPending"
            /\ last' = [NoOperation EXCEPT !.path = <<"Idle", "ConfirmPending">>]
            /\ UNCHANGED <<scene, rng, runs>>
       ELSE RunExecute(<<"Idle">>)
    /\ UNCHANGED <<props, assets, mat, hist>>

\* the user accepts the confirmation: the host calls execute
Confirm ==
    /\ pc = "ConfirmPending"
    /\ RunExecute(last.path)
    /\ UNCHANGED <<props, assets, mat, hist>>

\* the user dismisses the confirmation: nothing runs
Cancel ==
    /\ pc = "ConfirmPending"
    /\ pc' = "Idle"
    /\ last' = NoOperation
    /\ UNCHANGED <<props, assets, scene, rng, runs, mat, hist>>

\* the operator has returned; the panel is ready for the next click
Return ==
    /\ pc = "Finished"
    /\ pc' = "Idle"
    /\ last' = NoOperation
    /\ UNCHANGED <<props, assets, scene, rng, runs, mat, hist>>

-----------------------------------------------------------------------------
(* The material functions called directly on a material *)

NameInputs == {N_Mapping, N_Cloud, Prefixed(Prefix, N_Noise), Prefix \o <<"2">>}
NodeInputs == {Node(n, t) : n \in NameInputs, t \in {"MAPPING", "TEX_NOISE"}}

RECURSIVE SeqsUpTo(_, _)
SeqsUpTo(S, n) ==
    IF n = 0 THEN {<<>>}
    ELSE LET shorter == SeqsUpTo(S, n - 1)
         IN shorter \cup {Append(q, x) : q \in shorter, x \in S}

MaterialInputs ==
    {NoMaterial} \cup
    {Material("m", u, ns) : u \in BOOLEAN, ns \in SeqsUpTo(NodeInputs, MaxNodes)}

Locations(material) == [i \in DOMAIN material.nodes |-> material.nodes[i].loc]

InitMaterial ==
    /\ props = DefaultProps
    /\ assets = [exists |-> FALSE, objects |-> {}, loads |-> {}]
    /\ scene = <<>>
    /\ rng = RandomSeed(1)
    /\ pc = "Direct"
    /\ runs = 0
    /\ last = NoOperation
    /\ mat \in MaterialInputs
    /\ hist = NoHistory

\* rename_material_nodes(mat, prefix)
Rename ==
    /\ pc = "Direct"
    /\ hist.calls < MaxCalls
    /\ \E prefix \in PrefixInputs :
          /\ mat' = rename_material_nodes(mat, prefix)
          /\ hist' = [hist EXCEPT
                 !.applied = IF hist.op = "rename" /\ hist.prefix = prefix
                             THEN @ + 1 ELSE 1,
                 !.op = "rename", !.prefix = prefix, !.before = mat,
                 !.calls = @ + 1]
    /\ UNCHANGED <<props, assets, scene, rng, pc, runs, last>>

\* set_random_mapping_locations(mat, seed)
Randomize ==
    /\ pc = "Direct"
    /\ hist.calls < MaxCalls
    /\ \E seed \in SeedInputs :
          LET r == set_random_mapping_locations(mat, seed, rng)
          IN /\ mat' = r.mat
             /\ rng' = r.rng
             /\ hist' = [hist EXCEPT
                    !.op = "randomize", !.seed = seed, !.applied = 0, !.before = mat,
                    !.seen[seed] = @ \cup {Locations(r.mat)},
                    !.times[seed] = @ + 1,
                    !.calls = @ + 1]
    /\ UNCHANGED <<props, assets, scene, pc, runs, last>>

\* other code draws from the global generator (random.uniform)
Draw ==
    /\ pc = "Direct"
    /\ hist.draws < MaxDraws
    /\ rng' = RandomAdvance(rng)
    /\ hist' = [hist EXCEPT !.draws = @ + 1]
    /\ UNCHANGED <<props, assets, scene, pc, runs, last, mat>>

NextMaterial == Rename \/ Randomize \/ Draw

SpecMaterial == InitMaterial /\ [][NextMaterial]_vars

Next == SetProp \/ Invoke \/ Confirm \/ Cancel \/ Return

Spec == Init /\ [][Next]_vars

-----------------------------------------------------------------------------
(* Properties *)

\* the objects the last execute added to the scene
NewObjects == {i \in DOMAIN scene : i > Len(last.load.before)}
IsPlane(o) == o.type = "MESH" /\ o.name = "CloudCreator_Shadow"
IsLight(o) == o.type = "LIGHT"
IsCloud(o) == o.type = "MESH" /\ o.name # "CloudCreator_Shadow"
Planes == {i \in DOMAIN scene : IsPlane(scene[i])}

\* the operator went Idle -> Executing -> Finished / via ConfirmPending
DirectPath == <<"Idle", "Executing", "Finished">>
ConfirmedPath == <<"Idle", "ConfirmPending", "Executing", "Finished">>

\* C1: invoke enters ConfirmPending exactly when add_cloud and multiple are
\* set and cloud_spread > 10; otherwise it goes from Idle straight to
\* Executing.  With add_cloud and multiple set, the spreads 5 and 10 need no
\* confirmation and the spreads 10.0001 and 50 do.
C1_ConfirmExactlyWhenLargeLayer ==
    LET large == props.add_cloud /\ props.multiple /\ props.cloud_spread > Metres(10)
    IN /\ pc = "ConfirmPending" =>
            /\ large
            /\ props.cloud_spread \in {Metres(10) + 1, Metres(50)}
            /\ last.path = <<"Idle", "ConfirmPending">>
       /\ pc = "Finished" =>
            /\ last.path = (IF large THEN ConfirmedPath ELSE DirectPath)
            /\ (last.path = DirectPath /\ props.add_cloud /\ props.multiple)
                   => props.cloud_spread \in {Metres(5), Metres(10)}

C1_Witness ==
    /\ pc = "ConfirmPending" /\ props.cloud_spread = Metres(10) + 1
    /\ scene # <<>>

\* did the last execute ask the loader for a mesh the library cannot supply
LoaderCalled == last.calls # <<>> /\ last.calls[1][1] = "load_cloud_mesh"
RequestedMesh == last.calls[1][2]
LoadMustFail == ~assets.exists \/ RequestedMesh \notin assets.objects

\* C2: load_cloud_mesh called with a mesh identifier that is not in the asset
\* library, or with the library file missing, returns no object and a
\* non-null descriptive error, and the scene holds exactly the objects it
\* held before the call.
C2_FailedLoadLeavesScene ==
    (pc = "Finished" /\ LoaderCalled /\ LoadMustFail) =>
        /\ last.load.obj = 0
        /\ last.load.error \notin {None, ""}
        /\ last.load.after = last.load.before

C2_Witness ==
    /\ pc = "Finished" /\ LoaderCalled
    /\ assets.exists /\ RequestedMesh \notin assets.objects
    /\ last.load.before # <<>>

\* C3: one execute adds exactly one shadow plane iff cloud_shadows, exactly
\* one area light iff cloud_shadows and add_light, exactly one cloud object
\* iff add_cloud and the load succeeds; every light is parented to the
\* shadow plane created in the same execute; the earlier objects stay.
C3_ObjectsPerExecute ==
    pc = "Finished" =>
        LET planes == {i \in NewObjects : IsPlane(scene[i])}
            lights == {i \in NewObjects : IsLight(scene[i])}
            clouds == {i \in NewObjects : IsCloud(scene[i])}
            loaded == /\ props.add_cloud /\ assets.exists
                      /\ RequestedMesh \in assets.objects \cap assets.loads
        IN /\ Cardinality(planes) = (IF props.cloud_shadows THEN 1 ELSE 0)
           /\ Cardinality(lights) =
                  (IF props.cloud_shadows /\ props.add_light THEN 1 ELSE 0)
           /\ Cardinality(clouds) = (IF loaded THEN 1 ELSE 0)
           /\ \A l \in lights : scene[l].parent \in planes
           /\ SubSeq(scene, 1, Len(last.load.before)) = last.load.before
           /\ \A i \in DOMAIN scene : IsLight(scene[i]) =>
                  /\ scene[i].parent \in Planes
                  /\ scene[scene[i].parent].run = scene[i].run

C3_Witness ==
    /\ pc = "Finished" /\ runs = 2
    /\ props.add_cloud /\ props.cloud_shadows /\ props.add_light
    /\ last.load.obj # 0
    /\ Cardinality(NewObjects) = 3
    /\ last.load.before # <<>>

\* the shadow material's graph: node types and links between node types
TypeOf(material, name) ==
    material.nodes[CHOOSE i \in DOMAIN material.nodes : material.nodes[i].name = name].type
NodeTypes(material) == [i \in DOMAIN material.nodes |-> material.nodes[i].type]
Edges(material) ==
    {<<TypeOf(material, material.links[k].from_node), material.links[k].from_socket,
       TypeOf(material, material.links[k].to_node), material.links[k].to_socket>> :
        k \in DOMAIN material.links}
ShadowChain ==
    {<<"TEX_COORD", "Generated", "MAPPING", "Vector">>,
     <<"MAPPING", "Vector", "TEX_NOISE", "Vector">>,
     <<"TEX_NOISE", "Fac", "VALTORGB", "Fac">>,
     <<"VALTORGB", "Color", "BSDF_PRINCIPLED", "Alpha">>,
     <<"BSDF_PRINCIPLED", "BSDF", "OUTPUT_MATERIAL", "Surface">>}
ShadowNodeTypes ==
    {"TEX_COORD", "MAPPING", "TEX_NOISE", "VALTORGB", "BSDF_PRINCIPLED", "OUTPUT_MATERIAL"}

\* the links form the chain, every link joins nodes of the graph, no node
\* name occurs twice
IsShadowChain(m) ==
    /\ \A i, j \in DOMAIN m.nodes : m.nodes[i].name = m.nodes[j].name => i = j
    /\ \A k \in DOMAIN m.links :
           {m.links[k].from_node, m.links[k].to_node} \subseteq NodeNames(m)
    /\ Len(m.links) = 5
    /\ Edges(m) = ShadowChain

\* C4 as stated: the shadow material has exactly five nodes, connected as
\* the chain texture-coordinate -> mapping -> noise -> color-ramp ->
\* principled (alpha) -> material output, the same for every call.
C4_FiveNodeChain ==
    \A i \in Planes :
        /\ Len(scene[i].materials) = 1
        /\ Len(scene[i].materials[1].nodes) = 5
        /\ IsShadowChain(scene[i].materials[1])

\* C4 amended: the shadow material has exactly six nodes (texture
\* coordinate, mapping, noise, color ramp, principled, material output),
\* one of each type, joined by exactly five links into that single chain;
\* node set and link set are the same for every plane ever created.
C4_SixNodeChain ==
    /\ \A i \in Planes :
           LET m == scene[i].materials[1]
           IN /\ Len(scene[i].materials) = 1
              /\ Len(m.nodes) = 6
              /\ {m.nodes[k].type : k \in DOMAIN m.nodes} = ShadowNodeTypes
              /\ IsShadowChain(m)
    /\ \A i, j \in Planes :
           /\ NodeNames(scene[i].materials[1]) = NodeNames(scene[j].materials[1])
           /\ NodeTypes(scene[i].materials[1]) = NodeTypes(scene[j].materials[1])
           /\ scene[i].materials[1].links = scene[j].materials[1].links

C4_Witness ==
    \E i, j \in Planes :
        /\ i < j
        /\ \E k \in DOMAIN scene : IsCloud(scene[k]) /\ scene[k].run = scene[j].run
        /\ ~ \E k \in DOMAIN scene : IsCloud(scene[k]) /\ scene[k].run = scene[i].run

\* the objects the last execute added after its cloud step
AfterLoad == SubSeq(scene, Len(last.load.after) + 1, Len(scene))

\* C5: execute always ends in Finished: a failed load is reported as a
\* warning, does not abort the operation, and the shadow-plane and light
\* steps follow according to cloud_shadows and add_light just as after a
\* successful load.
C5_FailedLoadDoesNotAbort ==
    /\ [](pc = "Finished" =>
            /\ last.path[Len(last.path)] = "Finished"
            /\ last.load.error \notin {None, ""} =>
                   /\ Len(last.reports) >= 1
                   /\ last.reports[1][1] = "WARNING"
                   /\ \A k \in 2..Len(last.reports) : last.reports[k][1] = "INFO"
            /\ last.load.error = None =>
                   \A k \in DOMAIN last.reports : last.reports[k][1] = "INFO"
            /\ Len(AfterLoad) = (IF ~props.cloud_shadows THEN 0
                                 ELSE IF props.add_light THEN 2 ELSE 1)
            /\ props.cloud_shadows => IsPlane(AfterLoad[1])
            /\ (props.cloud_shadows /\ props.add_light) =>
                   /\ IsLight(AfterLoad[2])
                   /\ AfterLoad[2].parent = Len(last.load.after) + 1)
    /\ [][runs' # runs => pc' = "Finished"]_vars

C5_Witness ==
    /\ pc = "Finished"
    /\ last.load.error \notin {None, ""}
    /\ props.cloud_shadows /\ props.add_light
    /\ Len(AfterLoad) = 2

\* C8: a loaded layer cloud is scaled in X and Y by exactly cloud_spread / 10
\* and by 1 in Z, and its stored scale after the bake is (1,1,1); a single or
\* sphere cloud keeps the library's size and scale whatever cloud_spread is.
C8_LayerScale ==
    /\ (pc = "Finished" /\ last.load.obj # 0) =>
           LET o == scene[last.load.obj]
               lib == LibraryObject(RequestedMesh)
           IN /\ o.scale = UnitScale
              /\ RequestedMesh = "cloud_layer" =>
                     /\ o.dims[1] = MulDiv(lib.dims[1], props.cloud_spread, Metres(10))
                     /\ o.dims[2] = MulDiv(lib.dims[2], props.cloud_spread, Metres(10))
                     /\ (lib.dims[1] % Metres(10)) = 0 /\ (lib.dims[2] % Metres(10)) = 0
                     /\ o.dims[3] = lib.dims[3]
              /\ RequestedMesh # "cloud_layer" => o.dims = lib.dims
    /\ \A i \in DOMAIN scene :
           /\ scene[i].name = "CloudCreator_Single" =>
                  /\ scene[i].dims = LibraryObject("cloud_single").dims
                  /\ scene[i].scale = LibraryObject("cloud_single").scale
           /\ scene[i].name = "CloudCreator_Sphere" =>
                  /\ scene[i].dims = LibraryObject("cloud_sphere").dims
                  /\ scene[i].scale = LibraryObject("cloud_sphere").scale

C8_Witness ==
    /\ pc = "Finished" /\ last.load.obj # 0
    /\ RequestedMesh = "cloud_layer"
    /\ props.cloud_spread = Metres(10) + 1
    /\ \E i \in DOMAIN scene : scene[i].name = "CloudCreator_Single"

\* C9: execute runs cloud load, then shadow plane, then light; with add_cloud
\* the loader is called exactly once, with the layer mesh when multiple is
\* set (whatever cloud_type is) and else with the single or sphere mesh
\* matching cloud_type; without add_cloud the loader is not called.
C9_StepOrderAndMesh ==
    pc = "Finished" =>
        LET mesh == IF props.multiple THEN "cloud_layer"
                    ELSE IF props.cloud_type = "single" THEN "cloud_single"
                    ELSE "cloud_sphere"
            cloud == IF props.add_cloud THEN << <<"load_cloud_mesh", mesh>> >> ELSE <<>>
            shadow == IF props.cloud_shadows
                      THEN << <<"create_cloud_shadow_plane", "">> >> ELSE <<>>
            light == IF props.cloud_shadows /\ props.add_light
                     THEN << <<"create_cloud_light", "">> >> ELSE <<>>
        IN last.calls = cloud \o shadow \o light

C9_Witness ==
    /\ pc = "Finished"
    /\ props.add_cloud /\ props.multiple /\ props.cloud_type = "sphere"
    /\ props.cloud_shadows /\ props.add_light
    /\ Len(last.calls) = 3

\* the Location of the mapping node of a shadow plane
ShadowOffset(o) ==
    LET m == o.materials[1]
    IN m.nodes[CHOOSE k \in DOMAIN m.nodes : m.nodes[k].type = "MAPPING"].loc

\* the mapping nodes among the materials of the clouds loaded in run r
CloudMappingNodes(r) ==
    {<<i, j, k>> \in (DOMAIN scene) \X (1..2) \X (1..3) :
        /\ IsCloud(scene[i]) /\ scene[i].run = r
        /\ j \in DOMAIN scene[i].materials
        /\ scene[i].materials[j].use_nodes
        /\ k \in DOMAIN scene[i].materials[j].nodes
        /\ scene[i].materials[j].nodes[k].type = "MAPPING"}

\* C10: for a fixed seed, the offset given to the shadow plane's mapping node
\* is the same whether or not the cloud step ran earlier in the same execute
\* and however many mapping nodes the cloud's materials contain.
C10_ShadowOffsetBySeedAlone ==
    \A i, j \in Planes :
        scene[i].seed = scene[j].seed => ShadowOffset(scene[i]) = ShadowOffset(scene[j])

C10_Witness ==
    \E i, j \in Planes :
        /\ scene[i].seed = scene[j].seed
        /\ CloudMappingNodes(scene[i].run) = {}
        /\ Cardinality(CloudMappingNodes(scene[j].run)) = 2

-----------------------------------------------------------------------------
(* Properties of the material functions called directly *)

\* C6 as stated: rename_material_nodes is idempotent (applied twice with the
\* same prefix it gives the same node names as applied once), and after one
\* application to any material every node name starts with the prefix, a
\* name that already started with it being left unchanged.
C6_EveryGraphPrefixed ==
    hist.op = "rename" =>
        /\ \A i \in DOMAIN mat.nodes : StartsWith(mat.nodes[i].name, hist.prefix)
        /\ \A i \in DOMAIN mat.nodes :
               StartsWith(hist.before.nodes[i].name, hist.prefix)
                   => mat.nodes[i].name = hist.before.nodes[i].name
        /\ hist.applied >= 2 => NodeNames(mat) = NodeNames(hist.before)

\* C6 amended: rename_material_nodes is idempotent for every material; after
\* one application to a material that uses nodes (use_nodes on) every node
\* name starts with the prefix, a name that already started with it being
\* left unchanged; a material that does not use nodes is left as it is.
C6_RenameIdempotent ==
    hist.op = "rename" =>
        /\ (mat.valid /\ mat.use_nodes) =>
               \A i \in DOMAIN mat.nodes : StartsWith(mat.nodes[i].name, hist.prefix)
        /\ ~(hist.before.valid /\ hist.before.use_nodes) => mat = hist.before
        /\ Len(mat.nodes) = Len(hist.before.nodes)
        /\ \A i \in DOMAIN mat.nodes :
               StartsWith(hist.before.nodes[i].name, hist.prefix)
                   => mat.nodes[i].name = hist.before.nodes[i].name
        /\ hist.applied >= 2 =>
               /\ NodeNames(mat) = NodeNames(hist.before)
               /\ mat = hist.before

C6_Witness ==
    /\ hist.op = "rename" /\ hist.applied = 2 /\ hist.prefix = Prefix
    /\ mat.valid /\ mat.use_nodes
    /\ Prefixed(Prefix, N_Mapping) \in NodeNames(mat)
    /\ (Prefix \o <<"2">>) \in NodeNames(mat)

\* C7: for a fixed seed and a fixed material every call of
\* set_random_mapping_locations assigns the same X/Y/Z offsets to each
\* mapping node, whatever draws or calls came before; nodes that are not
\* mapping nodes are left unchanged.
C7_OffsetsBySeedAlone ==
    /\ \A s \in SeedInputs : Cardinality(hist.seen[s]) <= 1
    /\ hist.op = "randomize" =>
           /\ Len(mat.nodes) = Len(hist.before.nodes)
           /\ \A i \in DOMAIN mat.nodes :
                  /\ mat.nodes[i].type = hist.before.nodes[i].type
                  /\ mat.nodes[i].name = hist.before.nodes[i].name
                  /\ hist.before.nodes[i].type # "MAPPING"
                         => mat.nodes[i] = hist.before.nodes[i]

C7_Witness ==
    /\ hist.op = "randomize" /\ hist.times[42] >= 2 /\ hist.times[0] >= 1
    /\ hist.draws >= 1
    /\ mat.valid /\ mat.use_nodes /\ Len(mat.nodes) = 2
    /\ mat.nodes[1].type = "TEX_NOISE"
    /\ mat.nodes[2].type = "MAPPING" /\ mat.nodes[2].loc # Origin

====
